---- MODULE Spec2Model ----
(***************************************************************************)
(* s3_explorer.py: scan of an S3 prefix into per-folder statistics, an     *)
(* optional second pass that downloads the counted objects, and a report.  *)
(*                                                                         *)
(* Text is modelled as sequences of one-character strings, so that         *)
(* str.lower, str.endswith, pathlib parsing, Path.parent, Path.suffix and  *)
(* the "/" join are computed character by character, the way CPython 3.11  *)
(* computes them on a POSIX host.                                          *)
(*                                                                         *)
(* The S3 service is the environment: a list request returns the next      *)
(* PageSize objects the bucket now holds under PREFIX, in key order, after *)
(* the last key the paginator was given (its continuation token), and      *)
(* tells whether more follow; or it raises.  For a fetch, the mkdir of the *)
(* parent directory may raise before the service is called; download_file  *)
(* writes the object to the local path, or raises.  Other clients put or   *)
(* delete objects, one object per request, at any moment of either pass.   *)
(* The local file system has no symbolic links.  The tqdm progress bars    *)
(* (--quiet) read the counters and change nothing; they are left out.      *)
(***************************************************************************)
EXTENDS Integers, Sequences, FiniteSets, TLC

VARIABLES
    args,             \* argparse namespace: prefix, extensions, details, download, dest
    bucket,           \* the objects currently stored under PREFIX, in listing order
    pc,               \* position of the script
    failure,          \* which uncaught exception ended the run ("none" while running)
    extensions,       \* normalised extension list (<<>> stands for None)
    PREFIX,           \* normalised prefix
    DEST_ROOT,        \* Path(args.dest); NoPath until line 26 assigns it
    stats,            \* defaultdict: folder Path -> [files, bytes, ignored]
    total_files, total_bytes, total_ignored,
    downloaded_files, downloaded_bytes,
    pos,              \* number of objects the current paginator has already returned
    token,            \* continuation token: the last key it returned (<<>> before any)
    page,             \* entries of the current page still to be iterated
    more,             \* the current paginator has another page to request
    queue,            \* sorted(stats) still to be printed by the details loop
    changes,          \* puts and deletes other clients have applied since the start
    enums,            \* paginate() enumerations started so far
    seen1, seen2,     \* entries iterated by the scan pass / by the transfer pass
    listCalls,        \* list requests sent so far (failed ones included)
    fetched,          \* keys passed to s3.download_file, in order, failed calls too
    written,          \* set of [key, path]: objects written to local disk
    out               \* report lines printed, in order

vars == <<args, bucket, pc, failure, extensions, PREFIX, DEST_ROOT, stats,
          total_files, total_bytes, total_ignored, downloaded_files,
          downloaded_bytes, pos, token, page, more, queue, changes, enums, seen1,
          seen2, listCalls, fetched, written, out>>

----------------------------------------------------------------------------
(* Bounds of the model *)

\* largest number of objects stored under the prefix
MaxObjects == 2
\* largest object size in bytes (sizes are drawn from {0, MaxSize})
MaxSize == 2
\* number of entries the listing service returns per page
PageSize == 1
\* largest number of puts and deletes other clients apply during a run
MaxChanges == 1

----------------------------------------------------------------------------
(* Characters and strings *)

Char == {"a", "b", "n", "N", ".", "/"}

\* code points, for the ordering of str values
Ord(c) == CASE c = "." -> 46 [] c = "/" -> 47 [] c = "N" -> 78
            [] c = "a" -> 97 [] c = "b" -> 98 [] c = "n" -> 110

\* Optional values: None, or a value that was supplied
None == <<>>
Some(x) == <<x>>

\* str.lower()
LowerChar(c) == IF c = "N" THEN "n" ELSE c
Lower(s) == [i \in 1..Len(s) |-> LowerChar(s[i])]

\* str.startswith / str.endswith
StartsWith(s, p) == Len(s) >= Len(p) /\ SubSeq(s, 1, Len(p)) = p
EndsWith(s, p) == Len(s) >= Len(p) /\ SubSeq(s, Len(s) - Len(p) + 1, Len(s)) = p

\* str.rfind("."): index (from 0) of the last ".", -1 when there is none
RFindDot(s) == IF \E i \in 1..Len(s) : s[i] = "."
               THEN (CHOOSE i \in 1..Len(s) :
                        s[i] = "." /\ \A j \in (i+1)..Len(s) : s[j] # ".") - 1
               ELSE -1

\* str.split("/")
RECURSIVE Split(_)
Split(s) ==
    IF \A i \in 1..Len(s) : s[i] # "/" THEN <<s>>
    ELSE LET i == CHOOSE k \in 1..Len(s) :
                     s[k] = "/" /\ \A j \in 1..(k-1) : s[j] # "/"
         IN <<SubSeq(s, 1, i-1)>> \o Split(SubSeq(s, i+1, Len(s)))

\* str.lstrip("/")
RECURSIVE LStrip(_)
LStrip(s) == IF s # <<>> /\ Head(s) = "/" THEN LStrip(Tail(s)) ELSE s

\* "/".join(parts)
RECURSIVE JoinSep(_)
JoinSep(parts) ==
    IF parts = <<>> THEN <<>>
    ELSE IF Len(parts) = 1 THEN parts[1]
    ELSE parts[1] \o <<"/">> \o JoinSep(Tail(parts))

\* lexicographic order of str values
RECURSIVE StrLess(_, _)
StrLess(s, t) ==
    IF t = <<>> THEN FALSE
    ELSE IF s = <<>> THEN TRUE
    ELSE IF Ord(Head(s)) # Ord(Head(t)) THEN Ord(Head(s)) < Ord(Head(t))
    ELSE StrLess(Tail(s), Tail(t))

----------------------------------------------------------------------------
(* pathlib.PurePosixPath *)

NoPath == [root |-> <<"?">>, parts |-> <<>>]

\* Path(s): the root ("", "/" or "//") and the components that are neither
\* empty nor "."
Path(s) ==
    LET rel  == LStrip(s)
        lead == Len(s) - Len(rel)
        root == IF lead = 0 THEN <<>>
                ELSE IF lead = 2 THEN <<"/", "/">> ELSE <<"/">>
    IN [root  |-> root,
        parts |-> SelectSeq(Split(rel), LAMBDA x : x # <<>> /\ x # <<".">>)]

\* str(path)
PathStr(p) ==
    IF p.root = <<>> /\ p.parts = <<>> THEN <<".">>
    ELSE p.root \o JoinSep(p.parts)

\* path.parent
Parent(p) ==
    IF p.parts = <<>> THEN p
    ELSE [root |-> p.root, parts |-> SubSeq(p.parts, 1, Len(p.parts) - 1)]

\* path.name
Name(p) == IF p.parts = <<>> THEN <<>> ELSE p.parts[Len(p.parts)]

\* path.suffix
Suffix(p) ==
    LET name == Name(p)
        i    == RFindDot(name)
    IN IF 0 < i /\ i < Len(name) - 1 THEN SubSeq(name, i + 1, Len(name)) ELSE <<>>

\* path / key
JoinPath(p, key) ==
    LET q == Path(key)
    IN IF q.root # <<>> THEN q
       ELSE [root |-> p.root, parts |-> p.parts \o q.parts]

\* the list pathlib compares in __lt__ (_cparts): the root, then the components
CParts(p) == IF p.root = <<>> THEN p.parts ELSE <<p.root>> \o p.parts

RECURSIVE PartsLess(_, _)
PartsLess(x, y) ==
    IF y = <<>> THEN FALSE
    ELSE IF x = <<>> THEN TRUE
    ELSE IF Head(x) # Head(y) THEN StrLess(Head(x), Head(y))
    ELSE PartsLess(Tail(x), Tail(y))

PathLess(p, q) == PartsLess(CParts(p), CParts(q))

\* sorted(S) for a set S of paths
RECURSIVE Sorted(_)
Sorted(S) ==
    IF S = {} THEN <<>>
    ELSE LET m == CHOOSE x \in S : \A y \in S \ {x} : PathLess(x, y)
         IN <<m>> \o Sorted(S \ {m})

----------------------------------------------------------------------------
(* Inputs: command lines and bucket contents *)

\* values of --prefix: "a/" and ""
PrefixPool == { <<"a", "/">>, <<>> }

\* values of --extensions: absent, given without values, [".N", "a"]
ExtensionsPool == { None, Some(<<>>), Some(<< <<".", "N">>, <<"a">> >>) }

\* values of --dest: absent, "", "b"
DestPool == { None, Some(<<>>), Some(<<"b">>) }

\* object keys the bucket may hold, in the order the listing returns them:
\*   "/a.n", "a/", "a/../../n", "a//b.N", "a/b.N", "a/b.b", "a/b/.n", "a/n."
KeyPool == <<
    <<"/", "a", ".", "n">>,
    <<"a", "/">>,
    <<"a", "/", ".", ".", "/", ".", ".", "/", "n">>,
    <<"a", "/", "/", "b", ".", "N">>,
    <<"a", "/", "b", ".", "N">>,
    <<"a", "/", "b", ".", "b">>,
    <<"a", "/", "b", "/", ".", "n">>,
    <<"a", "/", "n", ".">> >>

SizePool == {0, MaxSize}

\* size of the objects other clients put while the script runs
PutSize == MaxSize

KeyIdx(k) == CHOOSE i \in 1..Len(KeyPool) : KeyPool[i] = k

\* the listing of a set of objects (one per key): ascending key order
RECURSIVE Listing(_)
Listing(S) ==
    IF S = {} THEN <<>>
    ELSE LET m == CHOOSE x \in S : \A y \in S : KeyIdx(x.Key) <= KeyIdx(y.Key)
         IN <<m>> \o Listing(S \ {m})

\* PREFIX = args.prefix if args.prefix.endswith("/") else f"{args.prefix}/"
NormPrefix(prefix) == IF EndsWith(prefix, <<"/">>) THEN prefix ELSE prefix \o <<"/">>

\* the contents a bucket may have under a prefix
Buckets(prefix) ==
    LET idx == { i \in 1..Len(KeyPool) : StartsWith(KeyPool[i], NormPrefix(prefix)) }
    IN UNION { { Listing({ [Key |-> KeyPool[i], Size |-> sz[i]] : i \in I }) :
                   sz \in [I -> SizePool] } :
               I \in { J \in SUBSET idx : Cardinality(J) <= MaxObjects } }

ObjectSet(listing) == { listing[i] : i \in 1..Len(listing) }

----------------------------------------------------------------------------
(* Helpers of the two passes *)

Zero == [files |-> 0, bytes |-> 0, ignored |-> 0]

\* bool(x) of an optional str / list argument
Truthy(opt) == opt # None /\ opt[1] # <<>>

\* line 33: ext.lower() if ext.startswith(".") else f".{ext.lower()}"
NormExt(ext) == IF StartsWith(ext, <<".">>) THEN Lower(ext) ELSE <<".">> \o Lower(ext)

\* lines 31-33
NormExtensions(opt) ==
    IF Truthy(opt) THEN [i \in 1..Len(opt[1]) |-> NormExt(opt[1][i])] ELSE <<>>

\* lines 25-28: the --download/--dest cross-field check raises
UsageError(a) ==
    /\ ~(a.download /\ Truthy(a.dest))
    /\ (a.download \/ Truthy(a.dest))

\* a pass that lacks the directory-marker test
IsMarkerNever(key) == FALSE

\* lines 64, 102: key.endswith("/")
IsMarker(key) == EndsWith(key, <<"/">>)

\* grouping one level too high
FolderGrandparent(key) == Parent(Parent(Path(key)))

\* line 61: Path(key).parent
Folder(key) == Parent(Path(key))

\* a filter test that compares the suffix as written, without lower()
ExcludedCaseSensitive(exts, key) ==
    /\ exts # <<>>
    /\ \A i \in 1..Len(exts) : exts[i] # Suffix(Path(key))

\* lines 68-70, 106-108: a filter is set and the lower-cased suffix is not in it
Excluded(exts, key) ==
    /\ exts # <<>>
    /\ \A i \in 1..Len(exts) : exts[i] # Lower(Suffix(Path(key)))

\* stats[folder] of the defaultdict, without inserting
StatsAt(s, folder) == IF folder \in DOMAIN s THEN s[folder] ELSE Zero

\* a scan that forgets the per-folder ignored counter
AddIgnoredForgotten(s, folder) == s

\* line 71: stats[folder]["ignored"] += 1
AddIgnored(s, folder) ==
    [f \in DOMAIN s \cup {folder} |->
        IF f = folder
        THEN [StatsAt(s, folder) EXCEPT !.ignored = @ + 1]
        ELSE s[f]]

\* "=" written for "+=" on the folder's byte count
AddCountedAssign(s, folder, size) ==
    [f \in DOMAIN s \cup {folder} |->
        IF f = folder
        THEN [StatsAt(s, folder) EXCEPT !.files = @ + 1, !.bytes = size]
        ELSE s[f]]

\* lines 76-77: stats[folder]["files"] += 1; stats[folder]["bytes"] += size
AddCounted(s, folder, size) ==
    [f \in DOMAIN s \cup {folder} |->
        IF f = folder
        THEN [StatsAt(s, folder) EXCEPT !.files = @ + 1, !.bytes = @ + size]
        ELSE s[f]]

\* an exception that is caught and dropped: the script goes on
RaiseSwallowed(kind) == pc' = pc /\ failure' = kind

\* an exception nothing catches (line 28, or raised inside lines 57, 96, 113-115):
\* the interpreter unwinds and the script ends
Raise(kind) == pc' = "failed" /\ failure' = kind

\* line 112: DEST_ROOT / key
LocalPath(root, key) == JoinPath(root, key)

\* os.getcwd(): the working directory of the process, an absolute path
Cwd == Path(<<"/", "n">>)

\* the components left when every ".." removes the component before it
\* (".." at the root stays at the root)
RECURSIVE RealParts(_, _)
RealParts(done, rest) ==
    IF rest = <<>> THEN done
    ELSE IF Head(rest) = <<".", ".">>
    THEN RealParts(IF done = <<>> THEN <<>> ELSE SubSeq(done, 1, Len(done) - 1),
                   Tail(rest))
    ELSE RealParts(Append(done, Head(rest)), Tail(rest))

\* Path.resolve(): a relative path is taken from the working directory,
\* the root becomes "/" and the ".." components are resolved
Resolve(p) ==
    [root  |-> <<"/">>,
     parts |-> RealParts(<<>>, IF p.root = <<>> THEN Cwd.parts \o p.parts
                                ELSE p.parts)]

\* the objects the bucket holds after the key `after` (all of them for <<>>)
Remaining(after) ==
    SelectSeq(bucket, LAMBDA o : after = <<>> \/ KeyIdx(o.Key) > KeyIdx(after))

NextPage(after) ==
    LET rest == Remaining(after)
    IN SubSeq(rest, 1, IF PageSize < Len(rest) THEN PageSize ELSE Len(rest))

\* IsTruncated: objects remain after the page
Truncated(after) == Len(Remaining(after)) > PageSize

\* NextContinuationToken: the last key of the page
NextToken(after) ==
    LET p == NextPage(after) IN IF p = <<>> THEN after ELSE p[Len(p)].Key

\* f"{b / (1024**3):.2f}": hundredths of a GiB; the division by a power of
\* two is exact and the format rounds an exact tie to the even digit
Go(b) ==
    LET q == (b * 100) \div 1073741824
        r == (b * 100) % 1073741824
    IN IF r > 536870912 \/ (r = 536870912 /\ q % 2 = 1) THEN q + 1 ELSE q

Line(kind, name, files, size, ignored) ==
    [kind |-> kind, name |-> name, files |-> files, size |-> size, ignored |-> ignored]

----------------------------------------------------------------------------
(* Initial state: a command line, and a bucket content under its prefix *)

Init ==
    /\ args \in [prefix : PrefixPool, extensions : ExtensionsPool,
                 details : BOOLEAN, download : BOOLEAN, dest : DestPool]
    /\ bucket \in Buckets(args.prefix)
    /\ pc = "args"
    /\ failure = "none"
    /\ extensions = <<>>
    /\ PREFIX = <<>>
    /\ DEST_ROOT = NoPath
    /\ stats = [f \in {} |-> Zero]
    /\ total_files = 0 /\ total_bytes = 0 /\ total_ignored = 0
    /\ downloaded_files = 0 /\ downloaded_bytes = 0
    /\ pos = 0 /\ token = <<>> /\ page = <<>> /\ more = FALSE
    /\ queue = <<>>
    /\ changes = 0
    /\ enums = 0
    /\ seen1 = <<>> /\ seen2 = <<>>
    /\ listCalls = 0
    /\ fetched = <<>> /\ written = {}
    /\ out = <<>>

----------------------------------------------------------------------------
(* Lines 23-57: argument check, normalisation, accumulators, first paginator *)

ParseArgs ==
    /\ pc = "args"
    /\ IF UsageError(args)
       THEN /\ Raise("usage")
            /\ UNCHANGED <<extensions, PREFIX, DEST_ROOT, more>>
       ELSE /\ DEST_ROOT' = IF args.download /\ Truthy(args.dest)
                            THEN Path(args.dest[1]) ELSE DEST_ROOT
            /\ extensions' = NormExtensions(args.extensions)
            /\ PREFIX' = NormPrefix(args.prefix)
            /\ more' = TRUE
            /\ pc' = "scan"
            /\ UNCHANGED failure
    /\ UNCHANGED <<args, bucket, stats, total_files, total_bytes, total_ignored,
                   downloaded_files, downloaded_bytes, pos, token, page, queue, changes,
                   enums, seen1, seen2, listCalls, fetched, written, out>>

----------------------------------------------------------------------------
(* Lines 56-83: the scan pass *)

\* line 57: the paginator requests its next page; the request may raise
ScanNextPage ==
    /\ pc = "scan" /\ page = <<>> /\ more
    /\ listCalls' = listCalls + 1
    /\ enums' = IF pos = 0 THEN enums + 1 ELSE enums
    /\ \E ok \in BOOLEAN :
        IF ok
        THEN /\ page' = NextPage(token)
             /\ pos' = pos + Len(NextPage(token))
             /\ token' = NextToken(token)
             /\ more' = Truncated(token)
             /\ UNCHANGED <<pc, failure>>
        ELSE /\ Raise("scan_list")
             /\ UNCHANGED <<page, pos, token, more>>
    /\ UNCHANGED <<args, bucket, extensions, PREFIX, DEST_ROOT, stats, total_files,
                   total_bytes, total_ignored, downloaded_files, downloaded_bytes,
                   queue, changes, seen1, seen2, fetched, written, out>>

\* lines 58-83: one iteration of the loop over page.get("Contents", [])
ScanEntry ==
    /\ pc = "scan" /\ page # <<>>
    /\ LET obj    == Head(page)
           key    == obj.Key
           size   == obj.Size
           folder == Folder(key)
       IN /\ page' = Tail(page)
          /\ seen1' = Append(seen1, obj)
          /\ IF IsMarker(key)
             THEN UNCHANGED <<stats, total_files, total_bytes, total_ignored>>
             ELSE IF Excluded(extensions, key)
             THEN /\ stats' = AddIgnored(stats, folder)
                  /\ total_ignored' = total_ignored + 1
                  /\ UNCHANGED <<total_files, total_bytes>>
             ELSE /\ stats' = AddCounted(stats, folder, size)
                  /\ total_files' = total_files + 1
                  /\ total_bytes' = total_bytes + size
                  /\ UNCHANGED total_ignored
    /\ UNCHANGED <<args, bucket, pc, failure, extensions, PREFIX, DEST_ROOT,
                   downloaded_files, downloaded_bytes, pos, token, more, queue, changes,
                   enums, seen2, listCalls, fetched, written, out>>

\* a transfer pass that is not gated by --download
ScanDoneAlwaysTransfer ==
    /\ pc = "scan" /\ page = <<>> /\ ~more
    /\ downloaded_files' = 0
    /\ downloaded_bytes' = 0
    /\ pc' = "transfer" /\ pos' = 0 /\ token' = <<>> /\ more' = TRUE
    /\ UNCHANGED <<args, bucket, failure, extensions, PREFIX, DEST_ROOT, stats,
                   total_files, total_bytes, total_ignored, page, queue, changes,
                   enums, seen1, seen2, listCalls, fetched, written, out>>

\* lines 84-96: the listing is exhausted; the transfer counters are created and
\* the second paginator is built when --download is set
ScanDone ==
    /\ pc = "scan" /\ page = <<>> /\ ~more
    /\ downloaded_files' = 0
    /\ downloaded_bytes' = 0
    /\ IF args.download
       THEN pc' = "transfer" /\ pos' = 0 /\ token' = <<>> /\ more' = TRUE
       ELSE pc' = "report" /\ UNCHANGED <<pos, token, more>>
    /\ UNCHANGED <<args, bucket, failure, extensions, PREFIX, DEST_ROOT, stats,
                   total_files, total_bytes, total_ignored, page, queue, changes,
                   enums, seen1, seen2, listCalls, fetched, written, out>>

----------------------------------------------------------------------------
(* The bucket while the script runs *)

\* another client deletes an object, or puts one (new, or replacing one of
\* another size),
\* while the script is in either pass: between two list requests, during a
\* download, or between the passes
BucketChange ==
    /\ pc \in {"scan", "transfer"}
    /\ changes < MaxChanges
    /\ changes' = changes + 1
    /\ \/ \E o \in ObjectSet(bucket) : bucket' = Listing(ObjectSet(bucket) \ {o})
       \/ \E i \in 1..Len(KeyPool) :
            LET new    == [Key |-> KeyPool[i], Size |-> PutSize]
                others == { o \in ObjectSet(bucket) : o.Key # KeyPool[i] }
            IN /\ StartsWith(KeyPool[i], PREFIX)
               /\ new \notin ObjectSet(bucket)
               /\ Cardinality(others) < MaxObjects
               /\ bucket' = Listing(others \cup {new})
    /\ UNCHANGED <<args, pc, failure, extensions, PREFIX, DEST_ROOT, stats,
                   total_files, total_bytes, total_ignored, downloaded_files,
                   downloaded_bytes, pos, token, page, more, queue, enums, seen1, seen2,
                   listCalls, fetched, written, out>>

----------------------------------------------------------------------------
(* Lines 95-123: the transfer pass *)

\* line 96: the second paginator requests its next page; the request may raise
TransferNextPage ==
    /\ pc = "transfer" /\ page = <<>> /\ more
    /\ listCalls' = listCalls + 1
    /\ enums' = IF pos = 0 THEN enums + 1 ELSE enums
    /\ \E ok \in BOOLEAN :
        IF ok
        THEN /\ page' = NextPage(token)
             /\ pos' = pos + Len(NextPage(token))
             /\ token' = NextToken(token)
             /\ more' = Truncated(token)
             /\ UNCHANGED <<pc, failure>>
        ELSE /\ Raise("transfer_list")
             /\ UNCHANGED <<page, pos, token, more>>
    /\ UNCHANGED <<args, bucket, extensions, PREFIX, DEST_ROOT, stats, total_files,
                   total_bytes, total_ignored, downloaded_files, downloaded_bytes,
                   queue, changes, seen1, seen2, fetched, written, out>>

\* lines 97-123: one iteration of the loop; mkdir, the fetch or the write may raise
TransferEntry ==
    /\ pc = "transfer" /\ page # <<>>
    /\ LET obj  == Head(page)
           key  == obj.Key
           size == obj.Size
       IN /\ seen2' = Append(seen2, obj)
          /\ IF IsMarker(key) \/ Excluded(extensions, key)
             THEN /\ page' = Tail(page)
                  /\ UNCHANGED <<pc, failure, fetched, written, downloaded_files,
                                 downloaded_bytes>>
             ELSE LET local_path == LocalPath(DEST_ROOT, key)
                  IN \E outcome \in {"mkdir_raises", "download_raises", "ok"} :
                       CASE outcome = "mkdir_raises" ->
                              /\ Raise("fetch")
                              /\ UNCHANGED <<page, fetched, written,
                                             downloaded_files, downloaded_bytes>>
                         [] outcome = "download_raises" ->
                              /\ fetched' = Append(fetched, key)
                              /\ Raise("fetch")
                              /\ UNCHANGED <<page, written, downloaded_files,
                                             downloaded_bytes>>
                         [] outcome = "ok" ->
                              /\ fetched' = Append(fetched, key)
                              /\ written' = written \cup
                                    {[key |-> key, path |-> PathStr(local_path)]}
                              /\ downloaded_bytes' = downloaded_bytes + size
                              /\ downloaded_files' = downloaded_files + 1
                              /\ page' = Tail(page)
                              /\ UNCHANGED <<pc, failure>>
    /\ UNCHANGED <<args, bucket, extensions, PREFIX, DEST_ROOT, stats, total_files,
                   total_bytes, total_ignored, pos, token, more, queue, changes, enums,
                   seen1, listCalls, out>>

\* the second listing is exhausted
TransferDone ==
    /\ pc = "transfer" /\ page = <<>> /\ ~more
    /\ pc' = "report"
    /\ UNCHANGED <<args, bucket, failure, extensions, PREFIX, DEST_ROOT, stats,
                   total_files, total_bytes, total_ignored, downloaded_files,
                   downloaded_bytes, pos, token, page, more, queue, changes, enums, seen1,
                   seen2, listCalls, fetched, written, out>>

----------------------------------------------------------------------------
(* Lines 130-151: the report *)

\* lines 130-133: the title, and sorted(stats) when --details is set
ReportHeader ==
    /\ pc = "report"
    /\ out' = Append(out, Line("title", PREFIX, 0, 0, 0))
    /\ queue' = IF args.details THEN Sorted(DOMAIN stats) ELSE <<>>
    /\ pc' = "details"
    /\ UNCHANGED <<args, bucket, failure, extensions, PREFIX, DEST_ROOT, stats,
                   total_files, total_bytes, total_ignored, downloaded_files,
                   downloaded_bytes, pos, token, page, more, changes, enums, seen1, seen2,
                   listCalls, fetched, written>>

\* lines 133-141: one iteration of the details loop
ReportFolder ==
    /\ pc = "details" /\ queue # <<>>
    /\ LET folder  == Head(queue)
           files   == stats[folder].files
           size_gb == Go(stats[folder].bytes)
           ignored == stats[folder].ignored
       IN out' = Append(out, Line("folder", PathStr(folder), files, size_gb, ignored))
    /\ queue' = Tail(queue)
    /\ UNCHANGED <<args, bucket, pc, failure, extensions, PREFIX, DEST_ROOT, stats,
                   total_files, total_bytes, total_ignored, downloaded_files,
                   downloaded_bytes, pos, token, page, more, changes, enums, seen1, seen2,
                   listCalls, fetched, written>>

\* lines 143-151: the totals, and the download line when --download is set
\* (DEST_ROOT.resolve() depends on the working directory; the line keeps
\* DEST_ROOT as given)
ReportTotals ==
    /\ pc = "details" /\ queue = <<>>
    /\ LET total == Line("total", <<>>, total_files, Go(total_bytes), total_ignored)
           dl    == Line(IF downloaded_files = 1 THEN "downloaded1" ELSE "downloaded",
                         PathStr(Resolve(DEST_ROOT)), downloaded_files,
                         Go(downloaded_bytes), 0)
       IN out' = IF args.download THEN out \o <<total, dl>> ELSE Append(out, total)
    /\ pc' = "done"
    /\ UNCHANGED <<args, bucket, failure, extensions, PREFIX, DEST_ROOT, stats,
                   total_files, total_bytes, total_ignored, downloaded_files,
                   downloaded_bytes, pos, token, page, more, queue, changes, enums, seen1,
                   seen2, listCalls, fetched, written>>

----------------------------------------------------------------------------

Next ==
    \/ ParseArgs
    \/ ScanNextPage
    \/ ScanEntry
    \/ ScanDone
    \/ BucketChange
    \/ TransferNextPage
    \/ TransferEntry
    \/ TransferDone
    \/ ReportHeader
    \/ ReportFolder
    \/ ReportTotals

Spec == Init /\ [][Next]_vars

TypeOK ==
    /\ pc \in {"args", "scan", "transfer", "report", "details", "done", "failed"}
    /\ failure \in {"none", "usage", "scan_list", "transfer_list", "fetch"}
    /\ total_files \in Nat /\ total_bytes \in Nat /\ total_ignored \in Nat
    /\ downloaded_files \in Nat /\ downloaded_bytes \in Nat
    /\ Len(bucket) <= MaxObjects

----------------------------------------------------------------------------
(* Vocabulary of the properties *)

\* the scan pass has exhausted its listing
ScanComplete ==
    \/ pc \in {"transfer", "report", "details", "done"}
    \/ pc = "failed" /\ failure \in {"transfer_list", "fetch"}

RECURSIVE SumField(_, _, _)
SumField(s, D, field) ==
    IF D = {} THEN 0
    ELSE LET f == CHOOSE g \in D : TRUE
         IN s[f][field] + SumField(s, D \ {f}, field)

Last(q) == q[Len(q)]

\* a step in which the scan loop / the transfer loop takes one entry
ScanStep == Len(seen1') = Len(seen1) + 1
TransferStep == Len(seen2') = Len(seen2) + 1

\* positions of the "." characters of a string
Dots(seg) == { i \in 1..Len(seg) : seg[i] = "." }
LastDot(seg) == CHOOSE i \in Dots(seg) : \A j \in Dots(seg) : j <= i

\* the final "/"-separated segment of a key, as written
FinalSegment(key) == Last(Split(key))

\* the final component of a key once empty and "." segments are dropped
FinalComponent(key) ==
    LET comps == SelectSeq(Split(key), LAMBDA x : x # <<>> /\ x # <<".">>)
    IN IF comps = <<>> THEN <<>> ELSE Last(comps)

\* the suffix as the specification words it: from the last "." of the final
\* segment onward, empty when the segment has no "."
SegmentSuffix(key) ==
    LET seg == FinalSegment(key)
    IN IF Dots(seg) = {} THEN <<>> ELSE SubSeq(seg, LastDot(seg), Len(seg))

\* the suffix with the two exceptions of file-name extensions: a "." that
\* starts the component (a dot-file) or ends it introduces no suffix
ExtensionSuffix(key) ==
    LET seg == FinalComponent(key)
    IN IF Dots(seg) = {} \/ LastDot(seg) = 1 \/ LastDot(seg) = Len(seg)
       THEN <<>> ELSE SubSeq(seg, LastDot(seg), Len(seg))

InFilter(x) == \E i \in 1..Len(extensions) : extensions[i] = x

\* the effect on the scan's accumulators of counting / ignoring an entry
CountedEffect(e) ==
    LET f == Folder(e.Key)
    IN /\ StatsAt(stats', f).files = StatsAt(stats, f).files + 1
       /\ StatsAt(stats', f).bytes = StatsAt(stats, f).bytes + e.Size
       /\ StatsAt(stats', f).ignored = StatsAt(stats, f).ignored
       /\ total_files' = total_files + 1
       /\ total_bytes' = total_bytes + e.Size
       /\ total_ignored' = total_ignored

IgnoredEffect(e) ==
    LET f == Folder(e.Key)
    IN /\ StatsAt(stats', f).ignored = StatsAt(stats, f).ignored + 1
       /\ StatsAt(stats', f).files = StatsAt(stats, f).files
       /\ StatsAt(stats', f).bytes = StatsAt(stats, f).bytes
       /\ total_ignored' = total_ignored + 1
       /\ total_files' = total_files
       /\ total_bytes' = total_bytes

NoFilterNothingIgnored ==
    (pc # "args" /\ extensions = <<>>) =>
        /\ total_ignored = 0
        /\ \A f \in DOMAIN stats : stats[f].ignored = 0

----------------------------------------------------------------------------
(* C1 *)

\* C1: once the scan pass has exhausted the listing, and at every later point
\* of the run (transfer pass, report), each run total equals the sum of the
\* corresponding per-folder counter over all folders of stats.
SumInvariant ==
    ScanComplete =>
        /\ total_files = SumField(stats, DOMAIN stats, "files")
        /\ total_bytes = SumField(stats, DOMAIN stats, "bytes")
        /\ total_ignored = SumField(stats, DOMAIN stats, "ignored")

\* a finished run with a download whose scan counted and ignored entries in
\* two folders
SumInvariantWitness ==
    /\ pc = "done" /\ args.download
    /\ Cardinality(DOMAIN stats) = 2
    /\ total_files >= 1 /\ total_bytes >= 1 /\ total_ignored >= 1

----------------------------------------------------------------------------
(* C2 *)

\* C2 as stated: every scanned entry that is not a directory marker is counted
\* when no filter is set or the lower-cased suffix -- taken from the last "."
\* of the final path segment onward -- is in the filter, and ignored otherwise;
\* without a filter nothing is ever ignored.
ClassificationBySegmentSuffix ==
    /\ [][ScanStep =>
            LET e == Last(seen1')
            IN ~EndsWith(e.Key, <<"/">>) =>
                 IF extensions = <<>> \/ InFilter(Lower(SegmentSuffix(e.Key)))
                 THEN CountedEffect(e) ELSE IgnoredEffect(e)]_vars
    /\ []NoFilterNothingIgnored

\* C2 amended: the same with the suffix of a file-name extension: a "." that
\* is the first or the last character of the final component starts no suffix.
ClassificationByExtension ==
    /\ [][ScanStep =>
            LET e == Last(seen1')
            IN ~EndsWith(e.Key, <<"/">>) =>
                 IF extensions = <<>> \/ InFilter(Lower(ExtensionSuffix(e.Key)))
                 THEN CountedEffect(e) ELSE IgnoredEffect(e)]_vars
    /\ []NoFilterNothingIgnored

\* filter {".n", ".a"}: "a/b.N" was counted and "a/b/.n" was ignored
ClassificationWitness ==
    /\ ScanComplete
    /\ extensions = << <<".", "n">>, <<".", "a">> >>
    /\ Len(seen1) = 2
    /\ seen1[1].Key = <<"a", "/", "b", ".", "N">>
    /\ seen1[2].Key = <<"a", "/", "b", "/", ".", "n">>
    /\ total_files = 1 /\ total_ignored = 1

----------------------------------------------------------------------------
(* C3 *)

AccumulatorsUntouched ==
    /\ stats' = stats
    /\ total_files' = total_files
    /\ total_bytes' = total_bytes
    /\ total_ignored' = total_ignored
    /\ downloaded_files' = downloaded_files
    /\ downloaded_bytes' = downloaded_bytes
    /\ fetched' = fetched
    /\ written' = written

\* C3: an entry whose key ends in "/" changes no counter and creates no folder
\* when the scan pass or the transfer pass takes it, whatever the filter, and
\* such a key is never fetched nor written.
MarkerExclusion ==
    /\ [][(ScanStep /\ EndsWith(Last(seen1').Key, <<"/">>))
            => AccumulatorsUntouched]_vars
    /\ [][(TransferStep /\ EndsWith(Last(seen2').Key, <<"/">>))
            => AccumulatorsUntouched]_vars
    /\ [](/\ \A i \in 1..Len(fetched) : ~EndsWith(fetched[i], <<"/">>)
          /\ \A w \in written : ~EndsWith(w.key, <<"/">>))

\* a finished filtered download run that met a directory marker in both passes
MarkerExclusionWitness ==
    /\ pc = "done" /\ args.download /\ extensions # <<>>
    /\ \E i \in 1..Len(seen1) : EndsWith(seen1[i].Key, <<"/">>)
    /\ \E i \in 1..Len(seen2) : EndsWith(seen2[i].Key, <<"/">>)
    /\ \E i \in 1..Len(seen2) : ~EndsWith(seen2[i].Key, <<"/">>)

----------------------------------------------------------------------------
(* C4 *)

\* the key with its final "/"-separated segment removed, as written (the
\* root "/" for a key that lies directly under it)
ParentAsWritten(key) ==
    LET segs == Split(key)
        dir  == JoinSep(SubSeq(segs, 1, Len(segs) - 1))
    IN IF dir = <<>> /\ StartsWith(key, <<"/">>) THEN <<"/">> ELSE dir

\* the parent once the key is normalised: runs of "/" collapsed, "." segments
\* dropped, a leading "/" kept as the root ("//" for exactly two), and "."
\* standing for an empty parent
NormalisedParent(key) ==
    LET lead  == Cardinality({ i \in 1..Len(key) : \A j \in 1..i : key[j] = "/" })
        root  == IF lead = 0 THEN <<>>
                 ELSE IF lead = 2 THEN <<"/", "/">> ELSE <<"/">>
        comps == SelectSeq(Split(key), LAMBDA x : x # <<>> /\ x # <<".">>)
        dir   == IF comps = <<>> THEN <<>> ELSE SubSeq(comps, 1, Len(comps) - 1)
    IN IF root = <<>> /\ dir = <<>> THEN <<".">> ELSE root \o JoinSep(dir)

IsCounted(e) == ~IsMarker(e.Key) /\ ~Excluded(extensions, e.Key)
IsIgnored(e) == ~IsMarker(e.Key) /\ Excluded(extensions, e.Key)

RECURSIVE SumSizes(_, _)
SumSizes(q, I) ==
    IF I = {} THEN 0
    ELSE LET i == CHOOSE j \in I : TRUE IN q[i].Size + SumSizes(q, I \ {i})

\* the per-folder statistics are those of grouping the scanned entries by P
GroupedBy(P(_)) ==
    LET n        == Len(seen1)
        parent   == [i \in 1..n |-> P(seen1[i].Key)]
        folder   == [i \in 1..n |-> Folder(seen1[i].Key)]
        marker   == [i \in 1..n |-> IsMarker(seen1[i].Key)]
        counted  == [i \in 1..n |-> IsCounted(seen1[i])]
        files(f) == { i \in 1..n : counted[i] /\ parent[i] = f }
        ign(f)   == { i \in 1..n : ~marker[i] /\ ~counted[i] /\ parent[i] = f }
    IN /\ { PathStr(f) : f \in DOMAIN stats }
            = { parent[i] : i \in { j \in 1..n : ~marker[j] } }
       /\ \A f \in DOMAIN stats :
            /\ stats[f].files = Cardinality(files(PathStr(f)))
            /\ stats[f].bytes = SumSizes(seen1, files(PathStr(f)))
            /\ stats[f].ignored = Cardinality(ign(PathStr(f)))
       /\ \A i, j \in 1..n :
            (~marker[i] /\ ~marker[j]) =>
                ((folder[i] = folder[j]) <=> (parent[i] = parent[j]))

\* the step on which the scan pass ends
ScanEnds == pc = "scan" /\ pc' \in {"transfer", "report"}

\* from the step that ends the scan on, neither the statistics nor what they
\* are computed from change
GroupingFrozen ==
    (ScanEnds \/ ScanComplete) => UNCHANGED <<stats, seen1, extensions>>

\* C4 as stated: after the scan, each folder's files, bytes and ignored are
\* those of the entries whose key, with its final segment removed, is that
\* folder, and two entries share a folder exactly when these strings are equal.
GroupingByWrittenParent ==
    /\ [][ScanEnds => GroupedBy(ParentAsWritten)]_vars
    /\ [][GroupingFrozen]_vars

\* C4 amended: the same with the normalised parent path: the scan ends with
\* the statistics grouped by it, and they stay as they are.
GroupingByNormalisedParent ==
    /\ [][ScanEnds => GroupedBy(NormalisedParent)]_vars
    /\ [][GroupingFrozen]_vars

\* "a//b.N" and "a/b.N" were both counted under folder "a"
GroupingWitness ==
    /\ ScanComplete
    /\ Len(seen1) = 2
    /\ seen1[1].Key = <<"a", "/", "/", "b", ".", "N">>
    /\ seen1[2].Key = <<"a", "/", "b", ".", "N">>
    /\ DOMAIN stats = { Path(<<"a">>) }
    /\ stats[Path(<<"a">>)].files = 2
    /\ stats[Path(<<"a">>)].bytes = MaxSize

----------------------------------------------------------------------------
(* C5 *)

CountedKeys(q) ==
    LET c == SelectSeq(q, IsCounted) IN [i \in 1..Len(c) |-> c[i].Key]

Range(q) == { q[i] : i \in 1..Len(q) }

\* the file destinationRoot/<key>: the two joined by a separator
UnderDest(key) == Path(PathStr(DEST_ROOT) \o <<"/">> \o key)

\* a finished download run whose second listing equalled the first fetched
\* exactly the keys the scan counted and ends with equal totals
TransferMatchesScan ==
    (pc = "done" /\ args.download /\ seen2 = seen1) =>
        /\ Range(fetched) = Range(CountedKeys(seen1))
        /\ { w.key : w \in written } = Range(CountedKeys(seen1))
        /\ downloaded_files = total_files
        /\ downloaded_bytes = total_bytes

\* C5: when the download completes and the second listing equals the first,
\* the keys fetched are exactly the keys the scan counted, each is written to
\* destinationRoot/<key>, and the transfer totals equal the run totals.
TransferAgreement ==
    /\ TransferMatchesScan
    /\ (pc = "done" /\ args.download /\ seen2 = seen1) =>
          \A w \in written : Path(w.path) = UnderDest(w.key)

----------------------------------------------------------------------------
(* C6 *)

\* C6: with exactly one of --download and --dest given the run fails before
\* any list request, fetch or output; with both or neither the check passes.
UsageValidation ==
    LET given == args.dest # None
    IN /\ (args.download # given) =>
            (pc # "args" =>
                /\ failure = "usage"
                /\ listCalls = 0 /\ enums = 0
                /\ fetched = <<>> /\ written = {}
                /\ out = <<>>)
       /\ (args.download = given) => failure # "usage"

----------------------------------------------------------------------------
(* C10 *)

\* the components of a path with every ".." resolved against what precedes it
RECURSIVE Collapse(_, _)
Collapse(done, rest) ==
    IF rest = <<>> THEN done
    ELSE IF Head(rest) = <<".", ".">> /\ done # <<>> /\ Last(done) # <<".", ".">>
    THEN Collapse(SubSeq(done, 1, Len(done) - 1), Tail(rest))
    ELSE Collapse(Append(done, Head(rest)), Tail(rest))

\* the path names a file below DEST_ROOT
InsideDest(path) ==
    LET p == Path(path)
        r == Collapse(<<>>, p.parts)
        d == Collapse(<<>>, DEST_ROOT.parts)
    IN /\ p.root = DEST_ROOT.root
       /\ Len(r) > Len(d)
       /\ SubSeq(r, 1, Len(d)) = d

\* C10: every local path written lies inside DEST_ROOT and mirrors the key,
\* and two distinct keys are never written to the same local path.
DestinationContainment ==
    /\ \A w \in written : InsideDest(w.path) /\ Path(w.path) = UnderDest(w.key)
    /\ \A v, w \in written : v.key # w.key => v.path # w.path

----------------------------------------------------------------------------
(* C7 *)

\* C7: a failed list request (either pass) or a failed fetch/write ends the run
\* there: the failing entry is not added to the transfer totals, nothing is
\* requested, fetched, iterated or printed afterwards, and a run that failed
\* never prints a report nor finishes.
FailStop ==
    /\ [][(failure = "none" /\ failure' # "none") =>
            /\ downloaded_files' = downloaded_files
            /\ downloaded_bytes' = downloaded_bytes
            /\ written' = written
            /\ out' = out]_vars
    /\ [][failure # "none" =>
            UNCHANGED <<listCalls, enums, fetched, written, seen1, seen2, stats,
                        total_files, total_bytes, total_ignored, downloaded_files,
                        downloaded_bytes, out, pc>>]_vars
    /\ [](failure # "none" => out = <<>> /\ pc = "failed")
    /\ [](pc \in {"failed", "done"} => (pc = "failed" <=> failure # "none"))

\* the fetch of the first of two counted objects failed: nothing was counted
\* as downloaded and the second object was never taken
FailStopWitness ==
    /\ failure = "fetch"
    /\ Len(bucket) = 2 /\ Len(seen2) = 1
    /\ fetched = <<bucket[1].Key>>
    /\ IsCounted(bucket[2])
    /\ downloaded_files = 0 /\ written = {}
    /\ out = <<>>

----------------------------------------------------------------------------
(* C8 *)

\* C8: the scan leaves its loop only when its paginator has no page left and
\* every entry it returned has been iterated (the whole bucket, when no other
\* client changed it); the second enumeration, and so every fetch, comes
\* after that and only with --download; without --download there is exactly
\* one enumeration, nothing is fetched or written, and the transfer totals
\* are 0 at report time.
PassOrdering ==
    /\ [][(pc = "scan" /\ pc' \in {"transfer", "report"}) =>
            /\ ~more /\ page = <<>> /\ Len(seen1) = pos
            /\ changes = 0 => seen1 = bucket
            /\ enums = 1 /\ fetched = <<>>]_vars
    /\ [][ScanStep => enums = 1 /\ fetched = <<>> /\ seen2 = <<>>]_vars
    /\ []((enums >= 2 \/ fetched # <<>> \/ seen2 # <<>>) =>
            enums = 2 /\ args.download /\ ScanComplete)
    /\ [](~args.download =>
            enums <= 1 /\ fetched = <<>> /\ written = {} /\ seen2 = <<>>)
    /\ []((~args.download /\ pc \in {"report", "details", "done"}) =>
            enums = 1 /\ downloaded_files = 0 /\ downloaded_bytes = 0)

\* a finished download run: two objects scanned, then a second enumeration
\* and a fetch
PassOrderingWitness ==
    /\ pc = "done" /\ args.download
    /\ Len(seen1) = 2 /\ enums = 2
    /\ fetched # <<>>

----------------------------------------------------------------------------
(* C9 *)

Counters ==
    <<total_files, total_bytes, total_ignored, downloaded_files, downloaded_bytes>>

\* C9: the counters start at 0 and the folder map empty; every counter is
\* non-negative and never decreases, no folder is removed, and once the scan's
\* listing is exhausted the folder map and the run totals never change again.
AccumulatorLifecycle ==
    /\ [](pc = "args" =>
            DOMAIN stats = {} /\ \A i \in 1..Len(Counters) : Counters[i] = 0)
    /\ [](/\ \A i \in 1..Len(Counters) : Counters[i] >= 0
          /\ \A f \in DOMAIN stats :
                stats[f].files >= 0 /\ stats[f].bytes >= 0 /\ stats[f].ignored >= 0)
    /\ [][/\ \A i \in 1..Len(Counters) : Counters'[i] >= Counters[i]
          /\ DOMAIN stats \subseteq DOMAIN stats'
          /\ \A f \in DOMAIN stats :
                /\ stats'[f].files >= stats[f].files
                /\ stats'[f].bytes >= stats[f].bytes
                /\ stats'[f].ignored >= stats[f].ignored]_vars
    /\ [][ScanComplete =>
            UNCHANGED <<stats, total_files, total_bytes, total_ignored>>]_vars

\* a finished download run with --details that printed a folder holding two
\* counted files, after having downloaded them
AccumulatorLifecycleWitness ==
    /\ pc = "done" /\ args.download /\ args.details
    /\ downloaded_files = 2 /\ downloaded_bytes >= 1
    /\ \E f \in DOMAIN stats : stats[f].files = 2 /\ stats[f].bytes >= 1
    /\ \E i \in 1..Len(out) : out[i].kind = "folder" /\ out[i].files = 2

====
